---- MODULE Spec2Model ----
(***************************************************************************)
(* ida-pro-mcp: the protocol router (server.py, dispatch_proxy), the       *)
(* process start-up (server.py, main), the session tools (api_pro.py) and  *)
(* the Session Manager they call (idb_session, known from the              *)
(* specification only).                                                    *)
(***************************************************************************)
EXTENDS Integers, Sequences, FiniteSets, TLC

\* ------------------------------------------------------------------ bounds
NumFiles == 2       \* files that exist on disk: 1..NumFiles; file 0 does not exist
NumIds == 1         \* caller-supplied session ids
MaxReqId == 2       \* request ids 1..MaxReqId

\* Python's None, and "absent" for an optional field.
None == <<>>

\* ------------------------------------------------------------ value spaces
\* An input path is a file and the way its path is written: the canonical
\* path itself, or another path to the same file (relative, symlinked).
Spellings == {"canonical", "alias"}
InputPaths == (0..NumFiles) \X Spellings
\* Session ids: caller-supplied ones and generated ones.
CustomIds == {<<"sid", n>> : n \in 1..NumIds}
GenIds == {<<"gen", n>> : n \in 1..NumFiles}
SessionIds == CustomIds \cup GenIds
\* Request ids; None marks a notification.
ReqIds == {<<n>> : n \in 1..MaxReqId}

\* ---------------------------------------------------------------- helpers
\* The id the generator returns: one that is not in use. Generated ids
\* are interchangeable, so the first unused one stands for any of them.
\* (None when every file is open: no session is created then.)
FreshId(ss) ==
    LET free == {n \in 1..NumFiles : <<"gen", n>> \notin {ss[i].session_id : i \in 1..Len(ss)}}
    IN  IF free = {} THEN None
        ELSE <<"gen", CHOOSE n \in free : \A m \in free : n <= m>>

\* The session ids of a session list, and the session with a given id.
Keys(ss) == {ss[i].session_id : i \in 1..Len(ss)}
Without(ss, id) == SelectSeq(ss, LAMBDA s : s.session_id # id)
\* Path(...).resolve(): the canonical path of an input path is its file.
Resolve(p) == p[1]
PathExists(p) == p[1] # 0

\* ---------------------------------------------------- Session Manager
\* The manager's state is the pair (ss, cur): the sessions in insertion
\* order and the current session id or None. Every operation returns
\* [ss, cur, ret, exc]: the new state, the return value and the exception
\* raised ("" when none).
get_session(ss, id) ==
    IF id \in Keys(ss) THEN (CHOOSE i \in 1..Len(ss) : ss[i].session_id = id) ELSE 0

get_current_session(ss, cur) ==
    IF cur # None /\ cur \in Keys(ss) THEN ss[get_session(ss, cur)] ELSE None

to_dict(s, cur) ==
    [session_id |-> s.session_id, input_path |-> s.input_path,
     is_current |-> (s.session_id = cur), analysis_complete |-> s.analysis_complete]

\* A list that marks the session opened last, not the current one.
list_sessions_marks_newest(ss, cur) ==
    [i \in 1..Len(ss) |-> to_dict(ss[i], ss[Len(ss)].session_id)]

list_sessions(ss, cur) == [i \in 1..Len(ss) |-> to_dict(ss[i], cur)]

\* An open that adds the session and leaves the current pointer alone.
open_binary_keeps_current(ss, cur, path, run, reqid, engineOk) ==
    LET same == {i \in 1..Len(ss) : ss[i].input_path = Resolve(path)}
        id == IF reqid = None THEN FreshId(ss) ELSE reqid
    IN  IF ~PathExists(path)
          THEN [ss |-> ss, cur |-> cur, ret |-> None, exc |-> "FileNotFoundError"]
        ELSE IF same # {}
          THEN [ss |-> ss, cur |-> cur,
                ret |-> ss[CHOOSE i \in same : TRUE].session_id, exc |-> ""]
        ELSE IF id \in Keys(ss)
          THEN [ss |-> ss, cur |-> cur, ret |-> None, exc |-> "ValueError"]
        ELSE IF ~engineOk
          THEN [ss |-> ss, cur |-> cur, ret |-> None, exc |-> "RuntimeError"]
        ELSE [ss |-> Append(ss, [session_id |-> id, input_path |-> Resolve(path),
                                 analysis_complete |-> run]),
              cur |-> cur, ret |-> id, exc |-> ""]

\* An open that does not compare the requested id with the ids in use.
open_binary_no_conflict(ss, cur, path, run, reqid, engineOk) ==
    LET same == {i \in 1..Len(ss) : ss[i].input_path = Resolve(path)}
        id == IF reqid = None THEN FreshId(ss) ELSE reqid
    IN  IF ~PathExists(path)
          THEN [ss |-> ss, cur |-> cur, ret |-> None, exc |-> "FileNotFoundError"]
        ELSE IF same # {}
          THEN [ss |-> ss, cur |-> cur,
                ret |-> ss[CHOOSE i \in same : TRUE].session_id, exc |-> ""]
        ELSE IF ~engineOk
          THEN [ss |-> ss, cur |-> cur, ret |-> None, exc |-> "RuntimeError"]
        ELSE [ss |-> Append(ss, [session_id |-> id, input_path |-> Resolve(path),
                                 analysis_complete |-> run]),
              cur |-> id, ret |-> id, exc |-> ""]

\* open_binary(path, run_auto_analysis, session_id): engineOk is whether the
\* engine loads the file.
open_binary(ss, cur, path, run, reqid, engineOk) ==
    LET same == {i \in 1..Len(ss) : ss[i].input_path = Resolve(path)}
        id == IF reqid = None THEN FreshId(ss) ELSE reqid
    IN  IF ~PathExists(path)
          THEN [ss |-> ss, cur |-> cur, ret |-> None, exc |-> "FileNotFoundError"]
        ELSE IF same # {}
          THEN [ss |-> ss, cur |-> cur,
                ret |-> ss[CHOOSE i \in same : TRUE].session_id, exc |-> ""]
        ELSE IF id \in Keys(ss)
          THEN [ss |-> ss, cur |-> cur, ret |-> None, exc |-> "ValueError"]
        ELSE IF ~engineOk
          THEN [ss |-> ss, cur |-> cur, ret |-> None, exc |-> "RuntimeError"]
        ELSE [ss |-> Append(ss, [session_id |-> id, input_path |-> Resolve(path),
                                 analysis_complete |-> run]),
              cur |-> id, ret |-> id, exc |-> ""]

\* A close that removes the session and forgets the current pointer.
close_session_keeps_current(ss, cur, id) ==
    IF id \notin Keys(ss)
      THEN [ss |-> ss, cur |-> cur, ret |-> FALSE, exc |-> ""]
      ELSE [ss |-> Without(ss, id), cur |-> cur, ret |-> TRUE, exc |-> ""]

\* A close that makes the oldest remaining session current when the
\* current one is closed.
close_session_promotes(ss, cur, id) ==
    IF id \notin Keys(ss)
      THEN [ss |-> ss, cur |-> cur, ret |-> FALSE, exc |-> ""]
      ELSE [ss |-> Without(ss, id),
            cur |-> IF cur # id THEN cur
                    ELSE IF Without(ss, id) = <<>> THEN None
                    ELSE Without(ss, id)[1].session_id,
            ret |-> TRUE, exc |-> ""]

close_session(ss, cur, id) ==
    IF id \notin Keys(ss)
      THEN [ss |-> ss, cur |-> cur, ret |-> FALSE, exc |-> ""]
      ELSE [ss |-> Without(ss, id), cur |-> IF cur = id THEN None ELSE cur,
            ret |-> TRUE, exc |-> ""]

switch_session(ss, cur, id) ==
    IF id \notin Keys(ss)
      THEN [ss |-> ss, cur |-> cur, ret |-> FALSE, exc |-> "ValueError"]
      ELSE [ss |-> ss, cur |-> id, ret |-> TRUE, exc |-> ""]

\* close_all_sessions(): closeFails is the set of sessions whose close
\* fails; attempted lists the sessions the call tried to close, in order.
\* A close-all that stops at the first session whose close fails.
close_all_sessions_aborts(ss, cur, closeFails) ==
    LET bad == {i \in 1..Len(ss) : ss[i].session_id \in closeFails}
        k == IF bad = {} THEN Len(ss) + 1 ELSE CHOOSE i \in bad : \A j \in bad : i <= j
        rest == SubSeq(ss, k, Len(ss))
    IN  [ss |-> rest,
         cur |-> IF cur \in Keys(rest) THEN cur ELSE None,
         ret |-> None,
         exc |-> IF bad = {} THEN "" ELSE "Exception",
         attempted |-> [i \in 1..(IF bad = {} THEN Len(ss) ELSE k) |-> ss[i].session_id]]

close_all_sessions(ss, cur, closeFails) ==
    [ss |-> <<>>, cur |-> None, ret |-> None, exc |-> "",
     attempted |-> [i \in 1..Len(ss) |-> ss[i].session_id]]

\* ------------------------------------------------ session tools (api_pro.py)
\* A tool returns a dict; the model keeps the keys the callers can tell
\* apart: "success" ("true", "false" or "absent"), whether an "error" key
\* is present, and the session descriptor ("session" key, or the dict
\* itself for current_database). NoneResult is a tool returning None.
ToolDict(success, error, session) ==
    [success |-> success, error |-> error, session |-> session]
ErrorDict == ToolDict("absent", TRUE, None)
NoneResult == ToolDict("none", FALSE, None)

\* Every tool returns [ss, cur, result, exits].

\* An open_database that reports the current session, not the session whose
\* id open_binary returned.
open_database_reports_current(ss, cur, hasIdalib, path, run, reqid, engineOk) ==
    IF ~hasIdalib
      THEN [ss |-> ss, cur |-> cur, result |-> ErrorDict, exits |-> FALSE]
      ELSE LET r == open_binary(ss, cur, path, run, reqid, engineOk)
           IN  IF r.exc # ""
                 THEN [ss |-> r.ss, cur |-> r.cur, result |-> ErrorDict, exits |-> FALSE]
               ELSE IF get_current_session(r.ss, r.cur) = None
                 THEN [ss |-> r.ss, cur |-> r.cur, result |-> ErrorDict, exits |-> FALSE]
               ELSE [ss |-> r.ss, cur |-> r.cur,
                     result |-> ToolDict("true", FALSE,
                                         to_dict(get_current_session(r.ss, r.cur), r.cur)),
                     exits |-> FALSE]

open_database(ss, cur, hasIdalib, path, run, reqid, engineOk) ==
    IF ~hasIdalib
      THEN [ss |-> ss, cur |-> cur, result |-> ErrorDict, exits |-> FALSE]
      ELSE LET r == open_binary(ss, cur, path, run, reqid, engineOk)
           IN  IF r.exc # ""
                 THEN [ss |-> r.ss, cur |-> r.cur, result |-> ErrorDict, exits |-> FALSE]
               ELSE IF get_session(r.ss, r.ret) = 0
                 THEN [ss |-> r.ss, cur |-> r.cur, result |-> ErrorDict, exits |-> FALSE]
               ELSE [ss |-> r.ss, cur |-> r.cur,
                     result |-> ToolDict("true", FALSE,
                                         to_dict(r.ss[get_session(r.ss, r.ret)], r.cur)),
                     exits |-> FALSE]

\* A close_database with the test of close_session's return value inverted.
close_database_inverted(ss, cur, hasIdalib, id) ==
    IF ~hasIdalib
      THEN [ss |-> ss, cur |-> cur, result |-> ErrorDict, exits |-> FALSE]
      ELSE LET r == close_session(ss, cur, id)
           IN  IF r.exc # ""
                 THEN [ss |-> r.ss, cur |-> r.cur, result |-> ErrorDict, exits |-> FALSE]
               ELSE IF ~r.ret
                 THEN [ss |-> r.ss, cur |-> r.cur,
                       result |-> ToolDict("true", FALSE, None), exits |-> FALSE]
               ELSE [ss |-> r.ss, cur |-> r.cur,
                     result |-> ToolDict("false", TRUE, None), exits |-> FALSE]

close_database(ss, cur, hasIdalib, id) ==
    IF ~hasIdalib
      THEN [ss |-> ss, cur |-> cur, result |-> ErrorDict, exits |-> FALSE]
      ELSE LET r == close_session(ss, cur, id)
           IN  IF r.exc # ""
                 THEN [ss |-> r.ss, cur |-> r.cur, result |-> ErrorDict, exits |-> FALSE]
               ELSE IF r.ret
                 THEN [ss |-> r.ss, cur |-> r.cur,
                       result |-> ToolDict("true", FALSE, None), exits |-> FALSE]
               ELSE [ss |-> r.ss, cur |-> r.cur,
                     result |-> ToolDict("false", TRUE, None), exits |-> FALSE]

\* A switch_database without the except ValueError clause doing its work:
\* the failure is swallowed and the tool returns None.
switch_database_swallows(ss, cur, hasIdalib, id) ==
    IF ~hasIdalib
      THEN [ss |-> ss, cur |-> cur, result |-> ErrorDict, exits |-> FALSE]
      ELSE LET r == switch_session(ss, cur, id)
           IN  IF r.exc # "" \/ ~r.ret
                 THEN [ss |-> r.ss, cur |-> r.cur, result |-> NoneResult, exits |-> FALSE]
               ELSE [ss |-> r.ss, cur |-> r.cur,
                     result |-> ToolDict("true", FALSE,
                                         to_dict(get_current_session(r.ss, r.cur), r.cur)),
                     exits |-> FALSE]

switch_database(ss, cur, hasIdalib, id) ==
    IF ~hasIdalib
      THEN [ss |-> ss, cur |-> cur, result |-> ErrorDict, exits |-> FALSE]
      ELSE LET r == switch_session(ss, cur, id)
           IN  IF r.exc # ""
                 THEN [ss |-> r.ss, cur |-> r.cur, result |-> ErrorDict, exits |-> FALSE]
               ELSE IF ~r.ret
                 THEN [ss |-> r.ss, cur |-> r.cur, result |-> NoneResult, exits |-> FALSE]
               ELSE IF get_current_session(r.ss, r.cur) = None
                 THEN [ss |-> r.ss, cur |-> r.cur, result |-> ErrorDict, exits |-> FALSE]
               ELSE [ss |-> r.ss, cur |-> r.cur,
                     result |-> ToolDict("true", FALSE,
                                         to_dict(get_current_session(r.ss, r.cur), r.cur)),
                     exits |-> FALSE]

\* "sessions", "count" and "current_session_id" of the returned dict.
list_databases(ss, cur, hasIdalib) ==
    IF ~hasIdalib
      THEN [ss |-> ss, cur |-> cur, result |-> ErrorDict, exits |-> FALSE]
      ELSE [ss |-> ss, cur |-> cur,
            result |-> [success |-> "absent", error |-> FALSE,
                        session |-> None,
                        sessions |-> list_sessions(ss, cur),
                        count |-> Len(list_sessions(ss, cur)),
                        current_session_id |->
                            IF get_current_session(ss, cur) # None
                              THEN get_current_session(ss, cur).session_id ELSE None],
            exits |-> FALSE]

current_database(ss, cur, hasIdalib) ==
    IF ~hasIdalib
      THEN [ss |-> ss, cur |-> cur, result |-> ErrorDict, exits |-> FALSE]
    ELSE IF get_current_session(ss, cur) = None
      THEN [ss |-> ss, cur |-> cur, result |-> ErrorDict, exits |-> FALSE]
    ELSE [ss |-> ss, cur |-> cur,
          result |-> ToolDict("absent", FALSE, to_dict(get_current_session(ss, cur), cur)),
          exits |-> FALSE]

\* ida_pro.qexit(code) ends the process: the return statement is not
\* reached. An exception of close_all_sessions is caught: the tool returns
\* the error and the process goes on.
exit_ida(ss, cur, hasIdalib, closeFails) ==
    LET r == IF hasIdalib THEN close_all_sessions(ss, cur, closeFails)
                          ELSE [ss |-> ss, cur |-> cur, ret |-> None, exc |-> ""]
    IN  IF r.exc # ""
          THEN [ss |-> r.ss, cur |-> r.cur, result |-> ErrorDict, exits |-> FALSE]
          ELSE [ss |-> r.ss, cur |-> r.cur, result |-> NoneResult, exits |-> TRUE]

\* --------------------------------------------------------------- requests
\* A method name is the sequence of its "/"-separated segments, so that
\* str.startswith("notifications/") is a test on the first segment.
Method(req) == req.method
StartsWithNotifications(m) == Len(m) >= 2 /\ m[1] = "notifications"

HandshakeMethods == {<<"initialize">>, <<"notifications", "initialized">>}
DiscoveryMethods == {<<"tools", "list">>, <<"resources", "list">>,
                     <<"resources", "templates", "list">>, <<"prompts", "list">>}
\* Routed methods that are neither discovery nor tools/call; the second is
\* not a notification method: it lacks the "/" of the prefix.
OtherMethods == {<<"resources", "read">>, <<"notifications">>}

\* params of a tools/call: the tool's name and its arguments.
OpenParams == {[name |-> "open_database", input_path |-> p, run_auto_analysis |-> r,
                session_id |-> i] :
               p \in InputPaths, r \in {TRUE}, i \in CustomIds \cup {None}}
IdParams == {[name |-> n, session_id |-> i] :
             n \in {"close_database", "switch_database"}, i \in SessionIds}
PlainParams == {[name |-> n] :
                n \in {"list_databases", "current_database", "exit_ida", "decompile"}}
ToolParams == OpenParams \cup IdParams \cup PlainParams

Requests ==
    {[method |-> m, params |-> None, id |-> i] :
        m \in HandshakeMethods \cup DiscoveryMethods \cup OtherMethods,
        i \in ReqIds \cup {None}}
    \cup {[method |-> <<"tools", "call">>, params |-> a, id |-> i] :
        a \in ToolParams \cup {None}, i \in ReqIds \cup {None}}

\* -------------------------------------------------------------- responses
\* by: who built the envelope ("registry", "peer" or "proxy"); message is
\* the variant of the proxy's error text, payload the tool's dict.
Response(kind, code, id, by, message, payload) ==
    [kind |-> kind, code |-> code, id |-> id, by |-> by,
     message |-> message, payload |-> payload]
Result(id, by, payload) == Response("result", 0, id, by, "", payload)

\* ----------------------------------------------------------- Tool Registry
\* dispatch(request) -> response | None: a request without id is handled
\* and not answered; a handler's failure comes back as an error envelope.
RunTool(ss, cur, hasIdalib, a, handlerOk, engineOk, closeFails) ==
    IF a = None \/ a.name = "decompile"
      THEN [ss |-> ss, cur |-> cur,
            result |-> IF handlerOk THEN ToolDict("absent", FALSE, None) ELSE ErrorDict,
            exits |-> FALSE]
    ELSE IF a.name = "open_database"
      THEN open_database(ss, cur, hasIdalib, a.input_path, a.run_auto_analysis,
                         a.session_id, engineOk)
    ELSE IF a.name = "close_database" THEN close_database(ss, cur, hasIdalib, a.session_id)
    ELSE IF a.name = "switch_database" THEN switch_database(ss, cur, hasIdalib, a.session_id)
    ELSE IF a.name = "list_databases" THEN list_databases(ss, cur, hasIdalib)
    ELSE IF a.name = "current_database" THEN current_database(ss, cur, hasIdalib)
    ELSE exit_ida(ss, cur, hasIdalib, closeFails)

registry_dispatch(req, ss, cur, hasIdalib, handlerOk, engineOk, closeFails) ==
    IF req.method = <<"tools", "call">>
      THEN LET t == RunTool(ss, cur, hasIdalib, req.params, handlerOk, engineOk, closeFails)
           IN  [ss |-> t.ss, cur |-> t.cur, exits |-> t.exits,
                resp |-> IF req.id = None \/ t.exits THEN None
                         ELSE Result(req.id, "registry", t.result)]
    ELSE IF req.method \in DiscoveryMethods \/ req.method = <<"initialize">>
      THEN [ss |-> ss, cur |-> cur, exits |-> FALSE,
            resp |-> IF req.id = None THEN None ELSE Result(req.id, "registry", None)]
    ELSE [ss |-> ss, cur |-> cur, exits |-> FALSE,
          resp |-> IF req.id = None THEN None
                   ELSE IF handlerOk THEN Result(req.id, "registry", None)
                   ELSE Response("error", -32601, req.id, "registry", "", None)]

\* ------------------------------------------------------------------ state
VARIABLES
    phase,             \* "boot" (main not yet run), "serving", "exited"
    HAS_IDALIB,        \* import idapro succeeded
    LOCAL_MCP_SERVER,  \* ida_mcp.MCP_SERVER was imported (None otherwise)
    FORCE_HEADLESS,    \* --headless
    FORCE_RPC,         \* --rpc-only
    sessions,          \* Session Manager: the sessions, in insertion order
    current,           \* Session Manager: the current session id or None
    last,              \* the request the step just taken handled, and how
    threads,           \* the request-handling threads, each at its place in the code
    base               \* the Session Manager's state when the threads last were idle

vars == <<phase, HAS_IDALIB, LOCAL_MCP_SERVER, FORCE_HEADLESS, FORCE_RPC,
          sessions, current, last, threads, base>>

\* The request-handling threads of a transport that serves its connections
\* concurrently. A thread is idle, or between two statements of
\* dispatch_proxy or of the tool it runs: pc names the place, req is the
\* request, onlySession whether the local route was taken for the current
\* session alone, tmp what the first Session Manager call returned, out the
\* value returned, withSession whether a session was current when the tool
\* ran, attempts the number of HTTP exchanges begun, conn the connection.
Threads == {"t1", "t2"}
Idle ==
    [pc |-> "idle", req |-> None, onlySession |-> FALSE, tmp |-> None, out |-> None,
     withSession |-> FALSE, attempts |-> 0, conn |-> "none", peer |-> ""]

\* What one call of dispatch_proxy did: the request, whether
\* dispatch_original / LOCAL_MCP_SERVER.registry.dispatch were called,
\* whether the request was sent to the peer and what the peer did, the value
\* returned (a response or None), whether an exception left the function,
\* and the Session Manager's state when the call began; queried is whether
\* the call asked the Session Manager for the current session; closeFails
\* is the set of sessions whose close failed. shutdown marks the record the
\* signal handler leaves, ended the one the end of the transport leaves.
Handled(req, queried, viaOriginal, viaLocal, forwarded, peer, resp, raised, ss, cur, closeFails, faulted) ==
    [seen |-> TRUE, req |-> req, queried |-> queried,
     viaOriginal |-> viaOriginal, viaLocal |-> viaLocal,
     forwarded |-> forwarded, peer |-> IF forwarded THEN peer ELSE "",
     resp |-> resp, raised |-> raised, preSessions |-> ss, preCurrent |-> cur,
     closeFails |-> closeFails, shutdown |-> FALSE, faulted |-> faulted,
     ended |-> FALSE]
NoRequest ==
    [seen |-> FALSE, req |-> None, queried |-> FALSE,
     viaOriginal |-> FALSE, viaLocal |-> FALSE,
     forwarded |-> FALSE, peer |-> "", resp |-> None, raised |-> FALSE,
     preSessions |-> <<>>, preCurrent |-> None, closeFails |-> {}, shutdown |-> FALSE,
     faulted |-> FALSE, ended |-> FALSE]

Init ==
    /\ phase = "boot"
    /\ HAS_IDALIB \in BOOLEAN
    /\ LOCAL_MCP_SERVER \in BOOLEAN
    /\ LOCAL_MCP_SERVER => HAS_IDALIB
    /\ FORCE_HEADLESS = FALSE
    /\ FORCE_RPC = FALSE
    /\ sessions = <<>>
    /\ current = None
    /\ last = NoRequest
    /\ threads = [t \in Threads |-> Idle]
    /\ base = [ss |-> <<>>, cur |-> None]

\* ------------------------------------------------------------------- main
\* A main without the test for --headless together with --rpc-only.
Startup_allows_both(hasIdalib, headless, rpc_only, utility, input_path, importOk, engineOk) ==
    IF headless /\ ~hasIdalib THEN [phase |-> "exited", ss |-> <<>>, cur |-> None]
    ELSE IF utility THEN [phase |-> "exited", ss |-> <<>>, cur |-> None]
    ELSE IF hasIdalib /\ ~rpc_only
      THEN IF ~importOk THEN [phase |-> "exited", ss |-> <<>>, cur |-> None]
           ELSE IF input_path = None THEN [phase |-> "serving", ss |-> <<>>, cur |-> None]
           ELSE IF ~PathExists(input_path)
             THEN [phase |-> "exited", ss |-> <<>>, cur |-> None]
           ELSE LET r == open_binary(<<>>, None, input_path, TRUE, None, engineOk)
                IN  [phase |-> IF r.exc = "" THEN "serving" ELSE "exited",
                     ss |-> r.ss, cur |-> r.cur]
    ELSE [phase |-> "serving", ss |-> <<>>, cur |-> None]

\* What main does with its arguments before the transport starts:
\* [phase, ss, cur] for the given flags. utility is --install, --uninstall
\* or --config; importOk is whether idb_session can be imported.
Startup(hasIdalib, headless, rpc_only, utility, input_path, importOk, engineOk) ==
    IF headless /\ rpc_only THEN [phase |-> "exited", ss |-> <<>>, cur |-> None]
    ELSE IF headless /\ ~hasIdalib THEN [phase |-> "exited", ss |-> <<>>, cur |-> None]
    ELSE IF utility THEN [phase |-> "exited", ss |-> <<>>, cur |-> None]
    ELSE IF hasIdalib /\ ~rpc_only
      THEN IF ~importOk THEN [phase |-> "exited", ss |-> <<>>, cur |-> None]
           ELSE IF input_path = None THEN [phase |-> "serving", ss |-> <<>>, cur |-> None]
           ELSE IF ~PathExists(input_path)
             THEN [phase |-> "exited", ss |-> <<>>, cur |-> None]
           ELSE LET r == open_binary(<<>>, None, input_path, TRUE, None, engineOk)
                IN  [phase |-> IF r.exc = "" THEN "serving" ELSE "exited",
                     ss |-> r.ss, cur |-> r.cur]
    ELSE [phase |-> "serving", ss |-> <<>>, cur |-> None]

main(headless, rpc_only, utility, input_path, importOk, engineOk) ==
    /\ phase = "boot"
    /\ LOCAL_MCP_SERVER => importOk
    /\ FORCE_HEADLESS' = headless
    /\ FORCE_RPC' = rpc_only
    /\ \E s \in {Startup(HAS_IDALIB, headless, rpc_only, utility, input_path,
                         importOk, engineOk)} :
           /\ phase' = s.phase
           /\ sessions' = s.ss
           /\ current' = s.cur
    /\ UNCHANGED <<HAS_IDALIB, LOCAL_MCP_SERVER, last, threads, base>>

\* The SIGINT / SIGTERM handler main installs in the headless setup.
cleanup_and_exit(closeFails) ==
    /\ phase = "serving"
    /\ HAS_IDALIB /\ ~FORCE_RPC
    /\ LET r == close_all_sessions(sessions, current, closeFails)
       IN  sessions' = r.ss /\ current' = r.cur
    /\ phase' = "exited"
    /\ last' = [NoRequest EXCEPT !.preSessions = sessions, !.preCurrent = current,
                                 !.closeFails = closeFails, !.shutdown = TRUE]
    /\ UNCHANGED <<HAS_IDALIB, LOCAL_MCP_SERVER, FORCE_HEADLESS, FORCE_RPC,
                   threads, base>>

\* The transport ends and main returns: end of input on stdio (mcp.stdio()
\* returns or raises EOFError), Enter at the prompt of the HTTP mode, or a
\* KeyboardInterrupt where no signal handler was installed.
transport_ends ==
    /\ phase = "serving"
    /\ phase' = "exited"
    /\ last' = [NoRequest EXCEPT !.preSessions = sessions, !.preCurrent = current,
                                 !.ended = TRUE]
    /\ UNCHANGED <<HAS_IDALIB, LOCAL_MCP_SERVER, FORCE_HEADLESS, FORCE_RPC,
                   sessions, current, threads, base>>

\* ----------------------------------------------------------------- Router
\* dispatch_original: the Registry of the serving process itself, which
\* answers the handshake and takes the protocol notifications.
dispatch_original(req, handlerOk) ==
    registry_dispatch(req, <<>>, None, FALSE, handlerOk, FALSE, {}).resp

is_discovery(req) == Method(req) \in DiscoveryMethods

is_open_command(req) ==
    /\ Method(req) = <<"tools", "call">>
    /\ req.params # None
    /\ req.params.name = "open_database"

\* The condition of the local branch, and the condition under which the
\* request is handed to LOCAL_MCP_SERVER.registry.dispatch inside it.
\* A local branch that does not look at --rpc-only.
TryLocal_ignores_rpc(forceRpc, hasIdalib, localServer) == hasIdalib /\ localServer

TryLocal(forceRpc, hasIdalib, localServer) == ~forceRpc /\ hasIdalib /\ localServer

\* A local branch that forgets the open_database call, one that forgets
\* the discovery methods, and one that forgets the current session.
UseLocal_without_session(req, forceHeadless, has_active_session) ==
    forceHeadless \/ is_discovery(req) \/ is_open_command(req)

UseLocal_without_open(req, forceHeadless, has_active_session) ==
    forceHeadless \/ is_discovery(req) \/ has_active_session

UseLocal_without_discovery(req, forceHeadless, has_active_session) ==
    forceHeadless \/ is_open_command(req) \/ has_active_session

UseLocal(req, forceHeadless, has_active_session) ==
    forceHeadless \/ is_discovery(req) \/ is_open_command(req) \/ has_active_session

\* A first test without its elif: the notifications are routed.
IsHandshake_initialize_only(req) == Method(req) = <<"initialize">>

IsHandshake(req) ==
    Method(req) = <<"initialize">> \/ StartsWithNotifications(Method(req))

\* What the peer does with a forwarded request: the connection is refused,
\* the exchange times out, the body is not JSON, or it is a JSON document
\* (a result or an error envelope).
PeerReplies == {"refused", "timeout", "malformed", "result", "error"}

ErrorMessage(hasIdalib, forceRpc) ==
    IF hasIdalib /\ ~forceRpc THEN "no headless session" ELSE "failed to connect"

\* The document a peer that answers sends back: the peer serves the same
\* envelope contract, so its result or error carries the request's id.
PeerDocument(req, peer) ==
    IF peer = "result" THEN Result(req.id, "peer", None)
    ELSE Response("error", -32601, req.id, "peer", "", None)

\* An except branch without the test for a notification.
Forward_answers_notifications(req, peer, hasIdalib, forceRpc) ==
    IF peer \in {"result", "error"} THEN PeerDocument(req, peer)
    ELSE Response("error", -32000, req.id, "proxy", ErrorMessage(hasIdalib, forceRpc), None)

\* An except branch that builds the error without the request's id.
Forward_drops_id(req, peer, hasIdalib, forceRpc) ==
    IF peer \in {"result", "error"} THEN PeerDocument(req, peer)
    ELSE IF req.id = None THEN None
    ELSE Response("error", -32000, None, "proxy", ErrorMessage(hasIdalib, forceRpc), None)

\* Lines 119-156: the HTTP exchange and the except branch.
Forward(req, peer, hasIdalib, forceRpc) ==
    IF peer \in {"result", "error"} THEN PeerDocument(req, peer)
    ELSE IF req.id = None THEN None
    ELSE Response("error", -32000, req.id, "proxy", ErrorMessage(hasIdalib, forceRpc), None)

\* The except branch of the local dispatch: the exception is raised again
\* under --headless, and dropped otherwise (the request is then forwarded).
\* An except branch that raises again whatever the mode, and one that
\* never does.
Reraise_always(forceHeadless) == TRUE

Reraise_never(forceHeadless) == FALSE

Reraise(forceHeadless) == forceHeadless

\* One call of dispatch_proxy. localFault: the local dispatch raises;
\* [ss, cur, exits, queried, faulted, viaOriginal, viaLocal, forwarded, resp,
\* raised], where faulted is whether the local dispatch was called and raised.
Proxy(req, ss, cur, forceHeadless, forceRpc, hasIdalib, localServer, localFault, handlerOk, engineOk, closeFails, peer) ==
    LET has_active_session == get_current_session(ss, cur) # None
        local == registry_dispatch(req, ss, cur, hasIdalib, handlerOk, engineOk, closeFails)
        called == /\ TryLocal(forceRpc, hasIdalib, localServer)
                  /\ UseLocal(req, forceHeadless, has_active_session)
        still == [ss |-> ss, cur |-> cur, exits |-> FALSE,
                  queried |-> ~IsHandshake(req) /\ TryLocal(forceRpc, hasIdalib, localServer),
                  faulted |-> ~IsHandshake(req) /\ called /\ localFault]
    IN  IF IsHandshake(req)
          THEN still @@ [viaOriginal |-> TRUE, viaLocal |-> FALSE, forwarded |-> FALSE,
                         resp |-> dispatch_original(req, handlerOk), raised |-> FALSE]
        ELSE IF called /\ ~localFault
          THEN [ss |-> local.ss, cur |-> local.cur, exits |-> local.exits,
                queried |-> TRUE, faulted |-> FALSE,
                viaOriginal |-> FALSE, viaLocal |-> TRUE, forwarded |-> FALSE,
                resp |-> local.resp, raised |-> FALSE]
        ELSE IF called /\ localFault /\ Reraise(forceHeadless)
          THEN still @@ [viaOriginal |-> FALSE, viaLocal |-> TRUE, forwarded |-> FALSE,
                         resp |-> None, raised |-> TRUE]
        ELSE still @@ [viaOriginal |-> FALSE, viaLocal |-> called, forwarded |-> TRUE,
                       resp |-> Forward(req, peer, hasIdalib, forceRpc), raised |-> FALSE]

dispatch_proxy(req, localFault, handlerOk, engineOk, closeFails, peer) ==
    /\ phase = "serving"
    /\ \E o \in {Proxy(req, sessions, current, FORCE_HEADLESS, FORCE_RPC, HAS_IDALIB,
                       LOCAL_MCP_SERVER, localFault, handlerOk, engineOk, closeFails,
                       peer)} :
           /\ sessions' = o.ss
           /\ current' = o.cur
           /\ phase' = IF o.exits THEN "exited" ELSE "serving"
           /\ last' = Handled(req, o.queried, o.viaOriginal, o.viaLocal, o.forwarded, peer,
                              o.resp, o.raised, sessions, current, closeFails, o.faulted)
    /\ UNCHANGED <<HAS_IDALIB, LOCAL_MCP_SERVER, FORCE_HEADLESS, FORCE_RPC,
                   threads, base>>

\* ------------------------------------------------- request-handling threads
\* dispatch_proxy and the session tools as the threads run them: every call
\* of the Session Manager is one step (the manager's lock), and the threads
\* interleave between two calls.

\* Lines 79-111 of dispatch_proxy for a routed request: the route, read from
\* the flags and from the current session at this moment.
Route(req, ss, cur, forceHeadless, forceRpc, hasIdalib, localServer) ==
    LET has_active_session == get_current_session(ss, cur) # None
        local == /\ TryLocal(forceRpc, hasIdalib, localServer)
                 /\ UseLocal(req, forceHeadless, has_active_session)
    IN  [pc |-> IF local THEN "local" ELSE "forward",
         onlySession |-> local /\ ~(forceHeadless \/ is_discovery(req) \/ is_open_command(req))]

Receive(t, req) ==
    /\ phase = "serving"
    /\ threads[t].pc = "idle"
    /\ ~IsHandshake(req)
    /\ \E r \in {Route(req, sessions, current, FORCE_HEADLESS, FORCE_RPC, HAS_IDALIB,
                       LOCAL_MCP_SERVER)} :
          threads' = [threads EXCEPT ![t] = [Idle EXCEPT !.pc = r.pc, !.req = req,
                                                         !.onlySession = r.onlySession]]
    /\ base' = IF \A u \in Threads : threads[u].pc = "idle"
                 THEN [ss |-> sessions, cur |-> current] ELSE base
    /\ UNCHANGED <<phase, HAS_IDALIB, LOCAL_MCP_SERVER, FORCE_HEADLESS, FORCE_RPC,
                   sessions, current, last>>

\* The tool of a locally dispatched call up to and including its first call
\* of the Session Manager: [ss, cur, th], th the thread afterwards.
ToolBegin(th, ss, cur) ==
    LET a == th.req.params
        finish(o) == [ss |-> o.ss, cur |-> o.cur,
                      th |-> [th EXCEPT !.pc = "done", !.out = o.result]]
    IN  IF a.name = "open_database"
          THEN LET r == open_binary(ss, cur, a.input_path, a.run_auto_analysis,
                                    a.session_id, TRUE)
               IN  IF r.exc # ""
                     THEN [ss |-> r.ss, cur |-> r.cur,
                           th |-> [th EXCEPT !.pc = "done", !.out = ErrorDict]]
                     ELSE [ss |-> r.ss, cur |-> r.cur,
                           th |-> [th EXCEPT !.pc = "opened", !.tmp = r.ret]]
        ELSE IF a.name = "close_database" THEN finish(close_database(ss, cur, TRUE, a.session_id))
        ELSE IF a.name = "switch_database"
          THEN LET r == switch_session(ss, cur, a.session_id)
               IN  IF r.exc # ""
                     THEN [ss |-> r.ss, cur |-> r.cur,
                           th |-> [th EXCEPT !.pc = "done", !.out = ErrorDict]]
                   ELSE IF ~r.ret
                     THEN [ss |-> r.ss, cur |-> r.cur,
                           th |-> [th EXCEPT !.pc = "done", !.out = NoneResult]]
                   ELSE [ss |-> r.ss, cur |-> r.cur,
                         th |-> [th EXCEPT !.pc = "switched"]]
        ELSE IF a.name = "list_databases"
          THEN [ss |-> ss, cur |-> cur,
                th |-> [th EXCEPT !.pc = "listed", !.tmp = list_sessions(ss, cur)]]
        ELSE IF a.name = "current_database" THEN finish(current_database(ss, cur, TRUE))
        ELSE [ss |-> ss, cur |-> cur,
              th |-> [th EXCEPT !.pc = "done", !.out = ToolDict("absent", FALSE, None),
                                !.withSession = get_current_session(ss, cur) # None]]

\* The rest of the tool: its second call of the Session Manager and the
\* dict it returns.
ToolEnd(th, ss, cur) ==
    IF th.pc = "opened"
      THEN IF get_session(ss, th.tmp) = 0 THEN ErrorDict
           ELSE ToolDict("true", FALSE, to_dict(ss[get_session(ss, th.tmp)], cur))
    ELSE IF th.pc = "switched"
      THEN IF get_current_session(ss, cur) = None THEN ErrorDict
           ELSE ToolDict("true", FALSE, to_dict(get_current_session(ss, cur), cur))
    ELSE [success |-> "absent", error |-> FALSE, session |-> None,
          sessions |-> th.tmp, count |-> Len(th.tmp),
          current_session_id |->
              IF get_current_session(ss, cur) # None
                THEN get_current_session(ss, cur).session_id ELSE None]

LocalStep(t) ==
    /\ phase = "serving"
    /\ \/ /\ threads[t].pc = "local"
          /\ \E o \in {ToolBegin(threads[t], sessions, current)} :
                /\ sessions' = o.ss
                /\ current' = o.cur
                /\ threads' = [threads EXCEPT ![t] = o.th]
       \/ /\ threads[t].pc \in {"opened", "switched", "listed"}
          /\ threads' = [threads EXCEPT ![t] =
                            [@ EXCEPT !.pc = "done",
                                      !.out = ToolEnd(threads[t], sessions, current)]]
          /\ UNCHANGED <<sessions, current>>
    /\ UNCHANGED <<phase, HAS_IDALIB, LOCAL_MCP_SERVER, FORCE_HEADLESS, FORCE_RPC,
                   last, base>>

\* Lines 119-128: the connection is made and the request sent; peer is what
\* comes of the exchange. Then lines 129-156: the value returned, and the
\* connection after the finally clause.
\* A return path that closes the connection only after a decoded answer.
ConnAfter_leaks(peer) == IF peer \in {"result", "error"} THEN "closed" ELSE "open"

ConnAfter(peer) == "closed"

Exchange(t, peer) ==
    /\ phase = "serving"
    /\ threads[t].pc = "forward"
    /\ threads' = [threads EXCEPT ![t] = [@ EXCEPT !.pc = "exchanged", !.peer = peer,
                                                   !.attempts = @ + 1, !.conn = "open"]]
    /\ UNCHANGED <<phase, HAS_IDALIB, LOCAL_MCP_SERVER, FORCE_HEADLESS, FORCE_RPC,
                   sessions, current, last, base>>

Return(t) ==
    /\ phase = "serving"
    /\ threads[t].pc = "exchanged"
    /\ threads' = [threads EXCEPT ![t] =
                      [@ EXCEPT !.pc = "done", !.conn = ConnAfter(threads[t].peer),
                                !.out = Forward(threads[t].req, threads[t].peer,
                                                HAS_IDALIB, FORCE_RPC)]]
    /\ UNCHANGED <<phase, HAS_IDALIB, LOCAL_MCP_SERVER, FORCE_HEADLESS, FORCE_RPC,
                   sessions, current, last, base>>

\* Every thread has returned: the next requests come.
AllReturned ==
    /\ phase = "serving"
    /\ \A t \in Threads : threads[t].pc \in {"idle", "done"}
    /\ \E t \in Threads : threads[t].pc = "done"
    /\ threads' = [t \in Threads |-> Idle]
    /\ UNCHANGED <<phase, HAS_IDALIB, LOCAL_MCP_SERVER, FORCE_HEADLESS, FORCE_RPC,
                   sessions, current, last, base>>

\* ---------------------------------------------------------- specification
\* The outcomes the environment can choose for one request. An outcome that
\* the request cannot meet (the peer's reply to a request that is not
\* forwarded, the engine's answer to a request that loads no file) is fixed
\* to one value, since no branch of dispatch_proxy reads it.
CalledLocally(req) ==
    /\ ~IsHandshake(req)
    /\ TryLocal(FORCE_RPC, HAS_IDALIB, LOCAL_MCP_SERVER)
    /\ UseLocal(req, FORCE_HEADLESS, get_current_session(sessions, current) # None)

FaultChoices(req) == IF CalledLocally(req) THEN BOOLEAN ELSE {FALSE}

HandlerChoices(req) ==
    IF \/ Method(req) \in DiscoveryMethods \cup {<<"initialize">>}
       \/ Method(req) = <<"tools", "call">> /\ req.params # None
                                            /\ req.params.name # "decompile"
       \/ req.id = None
      THEN {TRUE} ELSE BOOLEAN

EngineChoices(req) == IF is_open_command(req) THEN BOOLEAN ELSE {TRUE}

\* The sessions whose close may fail, for a call that closes them all.
CloseChoices(req) ==
    IF /\ Method(req) = <<"tools", "call">> /\ req.params # None
       /\ req.params.name = "exit_ida"
       /\ CalledLocally(req)
      THEN SUBSET Keys(sessions) ELSE {{}}

PeerChoices(req, localFault) ==
    IF IsHandshake(req) \/ (CalledLocally(req) /\ (~localFault \/ Reraise(FORCE_HEADLESS)))
      THEN {"refused"} ELSE PeerReplies

\* The requests the clients send. Two request populations are checked:
\* every method and request id with a few tool calls (the Router's
\* decisions), and every call of a session tool (the Session Manager).
RouterToolParams ==
    {a \in ToolParams :
        \/ a.name \in {"decompile", "exit_ida", "list_databases"}
        \/ a.name = "open_database" /\ a.input_path = <<1, "alias">> /\ a.session_id = None
        \/ a.name = "close_database" /\ a.session_id = <<"gen", 1>>}

RouterRequests ==
    {r \in Requests : Method(r) = <<"tools", "call">> => r.params \in RouterToolParams \cup {None}}

SessionRequests ==
    {r \in Requests : /\ Method(r) = <<"tools", "call">>
                      /\ r.params # None
                      /\ r.params.name # "decompile"
                      /\ r.id = <<1>>}

NextOver(requests, faults) ==
    \/ \E headless, rpc_only, utility, importOk \in BOOLEAN :
         \E input_path \in InputPaths \cup {None} :
           \E engineOk \in (IF input_path = None THEN {TRUE} ELSE BOOLEAN) :
             main(headless, rpc_only, utility, input_path, importOk, engineOk)
    \/ \E req \in requests :
         \E localFault \in FaultChoices(req) \cap faults :
           \E handlerOk \in HandlerChoices(req) :
             \E engineOk \in EngineChoices(req) :
               \E closeFails \in CloseChoices(req) :
                 \E peer \in PeerChoices(req, localFault) :
                   dispatch_proxy(req, localFault, handlerOk, engineOk, closeFails, peer)
    \/ \E closeFails \in SUBSET Keys(sessions) : cleanup_and_exit(closeFails)
    \/ transport_ends

\* The Session Manager is checked where the local dispatch does not raise
\* (a call that raises leaves the manager as it was).
Next == NextOver(RouterRequests, BOOLEAN)
NextSessions == NextOver(SessionRequests, {FALSE})

\* The calls the threads are given: an open of each file, a close of and a
\* switch to the first generated id, a list, and a tool that works on the
\* current session.
ThreadCalls ==
    {a \in ToolParams :
        \/ a.name = "open_database" /\ PathExists(a.input_path)
                                     /\ a.input_path[2] = "canonical" /\ a.session_id = None
        \/ a.name \in {"close_database", "switch_database"} /\ a.session_id = <<"gen", 1>>
        \/ a.name \in {"list_databases", "decompile"}}

ThreadRequests ==
    {r \in Requests : Method(r) = <<"tools", "call">> /\ r.params \in ThreadCalls
                                                       /\ r.id = <<1>>}

NextThreads ==
    \/ \E headless, rpc_only \in BOOLEAN :
         \E input_path \in {None, <<1, "canonical">>} :
           main(headless, rpc_only, FALSE, input_path, TRUE, TRUE)
    \/ \E t \in Threads : \E req \in ThreadRequests : Receive(t, req)
    \/ \E t \in Threads : LocalStep(t)
    \/ \E t \in Threads : \E peer \in PeerReplies : Exchange(t, peer)
    \/ \E t \in Threads : Return(t)
    \/ AllReturned

Spec == Init /\ [][Next]_vars
SpecSessions == Init /\ [][NextSessions]_vars
SpecThreads == Init /\ [][NextThreads]_vars
\* A thread that can take its next step takes it.
SpecThreadsFair ==
    /\ SpecThreads
    /\ \A t \in Threads :
         /\ WF_vars(LocalStep(t))
         /\ WF_vars(\E peer \in PeerReplies : Exchange(t, peer))
         /\ WF_vars(Return(t))

\* ================================================================= claims
\* What the claims say of the request just handled.
LastIsTool(name) ==
    /\ last.seen
    /\ last.req.method = <<"tools", "call">>
    /\ last.req.params # None
    /\ last.req.params.name = name

\* The local Registry ran the request and returned.
LastRanLocally == last.seen /\ last.viaLocal /\ ~last.forwarded /\ ~last.raised

LastIsHandshake ==
    /\ last.seen
    /\ \/ last.req.method = <<"initialize">>
       \/ Len(last.req.method) >= 2 /\ last.req.method[1] = "notifications"

LastIsDiscovery ==
    /\ last.seen
    /\ last.req.method \in {<<"tools", "list">>, <<"resources", "list">>,
                            <<"resources", "templates", "list">>, <<"prompts", "list">>}

LocalEngineAvailable == HAS_IDALIB /\ LOCAL_MCP_SERVER

PeerUnreachable == last.forwarded /\ last.peer \in {"refused", "timeout"}

NotAnError(resp) == resp = None \/ resp.kind = "result"

\* C1: after any sequence of open, close, switch and close-all calls the
\* current pointer is None or the session_id of a session in the mapping.
C1_CurrentIsNullOrKey == current = None \/ current \in Keys(sessions)

\* Two sessions are open and a switch has just moved the current pointer
\* from the newer session to the older one.
C1_Witness ==
    /\ LastIsTool("switch_database") /\ LastRanLocally
    /\ Len(sessions) = 2
    /\ last.preCurrent # current
    /\ current = sessions[1].session_id

\* C2: opening a path whose resolved path is already open returns the
\* existing session's id and leaves the number of sessions as it was,
\* whatever session_id is requested.
C2_OpenIsIdempotent ==
    (LastIsTool("open_database") /\ LastRanLocally) =>
        \A i \in 1..Len(last.preSessions) :
            last.preSessions[i].input_path = last.req.params.input_path[1] =>
                /\ last.resp.payload.success = "true"
                /\ last.resp.payload.session.session_id = last.preSessions[i].session_id
                /\ Len(sessions) = Len(last.preSessions)
                /\ Keys(sessions) = Keys(last.preSessions)

\* The path of a session that is open and not current is opened again under
\* another spelling and with another session_id requested.
C2_Witness ==
    /\ LastIsTool("open_database") /\ LastRanLocally
    /\ last.req.params.input_path[2] = "alias"
    /\ last.req.params.session_id # None
    /\ \E i \in 1..Len(last.preSessions) :
         /\ last.preSessions[i].input_path = last.req.params.input_path[1]
         /\ last.preSessions[i].session_id # last.req.params.session_id
         /\ last.preSessions[i].session_id # last.preCurrent
    /\ last.preCurrent # None

\* C3: close of an id that is not in the mapping returns false, raises
\* nothing, and leaves the mapping and the current pointer as they were.
C3_CloseUnknown ==
    (/\ LastIsTool("close_database") /\ LastRanLocally
     /\ last.req.params.session_id \notin Keys(last.preSessions)) =>
        /\ last.resp.kind = "result"
        /\ last.resp.payload.success = "false"
        /\ sessions = last.preSessions
        /\ current = last.preCurrent

\* An unknown id is closed while a session is open and current.
C3_Witness ==
    /\ LastIsTool("close_database") /\ LastRanLocally
    /\ last.req.params.session_id \notin Keys(last.preSessions)
    /\ last.preCurrent # None
    /\ last.resp.payload.success = "false"

\* C4: switch to an id that is not in the mapping fails (the tool reports
\* the manager's NotFound as an error) and leaves the current pointer and
\* the mapping as they were.
C4_SwitchUnknown ==
    (/\ LastIsTool("switch_database") /\ LastRanLocally
     /\ last.req.params.session_id \notin Keys(last.preSessions)) =>
        /\ last.resp.payload = ErrorDict
        /\ current = last.preCurrent
        /\ sessions = last.preSessions

\* A switch to an unknown id fails while another session is current.
C4_Witness ==
    /\ LastIsTool("switch_database") /\ LastRanLocally
    /\ last.req.params.session_id \notin Keys(last.preSessions)
    /\ last.preCurrent # None
    /\ last.resp.payload.error

\* C5: a request whose method is "initialize" or starts with
\* "notifications/" is handed to dispatch_original and never forwarded,
\* whatever the flags, the engine and the sessions are.
C5_HandshakeIsLocal ==
    LastIsHandshake => (last.viaOriginal /\ ~last.forwarded /\ ~last.viaLocal)

\* A notification method arrives with --rpc-only set and no session.
C5_Witness ==
    /\ LastIsHandshake
    /\ last.req.method = <<"notifications", "initialized">>
    /\ FORCE_RPC /\ last.preCurrent = None
    /\ last.viaOriginal

\* C6 as stated: the open_database call is dispatched locally whenever a
\* local engine is available.
C6_OpenIsLocal_AsStated ==
    (LastIsTool("open_database") /\ LocalEngineAvailable) => last.viaLocal

\* C6 amended: the open_database call is dispatched locally whenever a local
\* engine is available and --rpc-only is not set, whether or not a session
\* is current.
C6_OpenIsLocal ==
    (LastIsTool("open_database") /\ LocalEngineAvailable /\ ~FORCE_RPC) => last.viaLocal

\* open_database arrives in hybrid mode with no session current.
C6_Witness ==
    /\ LastIsTool("open_database") /\ LocalEngineAvailable
    /\ ~FORCE_RPC /\ ~FORCE_HEADLESS
    /\ last.preCurrent = None
    /\ last.viaLocal

\* C7: with no local engine and the peer unreachable, a routed request with
\* an id gets the error -32000 under its own id, and one without id gets no
\* response.
C7_UnreachableYieldsError ==
    (/\ last.seen /\ ~LastIsHandshake
     /\ ~LocalEngineAvailable /\ PeerUnreachable) =>
        IF last.req.id = None THEN last.resp = None
        ELSE /\ last.resp # None
             /\ last.resp.kind = "error"
             /\ last.resp.code = -32000
             /\ last.resp.id = last.req.id
             /\ ~last.raised

\* Both halves happen: a request with id 2 and a request without id.
C7_Witness ==
    /\ last.seen /\ ~LastIsHandshake
    /\ ~LocalEngineAvailable /\ PeerUnreachable
    /\ last.req.id = <<2>>
    /\ last.resp # None /\ last.resp.code = -32000

C7_WitnessNotification ==
    /\ last.seen /\ ~LastIsHandshake
    /\ ~LocalEngineAvailable /\ PeerUnreachable
    /\ last.req.id = None /\ last.resp = None

\* C8 as stated: a request without id never receives a response, whatever
\* route it takes.
C8_NotificationNeverAnswered ==
    (last.seen /\ last.req.id = None) => last.resp = None

C10_HeadlessNeverForwards ==
    (last.seen /\ FORCE_HEADLESS) => ~last.forwarded

\* C11: with --rpc-only the Router neither dispatches locally nor asks the
\* Session Manager, and forwards every request other than initialize and
\* notifications/*, discovery and open_database calls included.
C11_RemoteNeverLocal ==
    (last.seen /\ FORCE_RPC) =>
        /\ ~last.viaLocal
        /\ ~last.queried
        /\ ~LastIsHandshake => last.forwarded

\* open_database is forwarded with --rpc-only although a local engine is
\* available.
C11_Witness ==
    /\ LastIsTool("open_database") /\ FORCE_RPC /\ LocalEngineAvailable
    /\ last.forwarded

\* C12: for a routed request, without --rpc-only and with a local engine,
\* the Router dispatches locally exactly when --headless is set, the method
\* is a discovery method, it is the open_database call, or a session is
\* current; every other request is forwarded.
C12_LocalIff ==
    (last.seen /\ ~LastIsHandshake /\ ~FORCE_RPC /\ LocalEngineAvailable) =>
        /\ last.viaLocal <=>
              \/ FORCE_HEADLESS
              \/ LastIsDiscovery
              \/ LastIsTool("open_database")
              \/ last.preCurrent # None
        /\ ~last.viaLocal => last.forwarded

\* In hybrid mode a tool call other than open_database is dispatched locally
\* because a session is current.
C12_Witness ==
    /\ LastIsTool("decompile") /\ ~FORCE_RPC /\ ~FORCE_HEADLESS /\ LocalEngineAvailable
    /\ last.preCurrent # None
    /\ last.viaLocal

\* ... and is forwarded when no session is current.
C12_WitnessForwarded ==
    /\ LastIsTool("decompile") /\ ~FORCE_RPC /\ ~FORCE_HEADLESS /\ LocalEngineAvailable
    /\ last.preCurrent = None
    /\ last.forwarded /\ ~last.viaLocal

\* C13 as stated: whatever the mode flags, no exception leaves the Router.
C13_NoExceptionEscapes_AsStated == last.seen => ~last.raised

\* C13 amended: an exception leaves the Router only under --headless and
\* only from the local dispatch; a forwarding failure comes back as the
\* error envelope -32000, or as no response for a notification; an
\* open_database that opened nothing comes back as a dict with an error.
C13_ErrorsReachCaller ==
    last.seen =>
        /\ last.raised => (FORCE_HEADLESS /\ last.viaLocal /\ ~last.forwarded)
        /\ (last.forwarded /\ last.peer \in {"refused", "timeout", "malformed"}) =>
              IF last.req.id = None THEN last.resp = None
              ELSE /\ last.resp # None
                   /\ last.resp.kind = "error"
                   /\ last.resp.code = -32000
                   /\ ~last.raised
        /\ (/\ LastIsTool("open_database") /\ LastRanLocally
            /\ last.req.id # None
            /\ \A i \in 1..Len(sessions) :
                  sessions[i].input_path # Resolve(last.req.params.input_path)) =>
              /\ last.resp # None
              /\ last.resp.payload.error

\* Without --headless the local dispatch raised, the request was forwarded,
\* the peer was not reachable, and the caller got the error envelope.
C13_Witness ==
    /\ last.seen /\ ~FORCE_HEADLESS
    /\ last.viaLocal /\ last.forwarded /\ ~last.raised
    /\ last.peer = "refused"
    /\ last.req.id # None
    /\ last.resp # None /\ last.resp.kind = "error" /\ last.resp.code = -32000

\* The engine did not load the file and the caller got the tool's error.
C13_WitnessEngine ==
    /\ LastIsTool("open_database") /\ LastRanLocally
    /\ last.req.id # None
    /\ sessions = <<>>
    /\ last.resp # None /\ last.resp.payload.error

\* C14: every response the Router returns carries the id of the request it
\* answers: the registry's, the error the Router builds, and the peer's.
C14_ResponseEchoesId ==
    (last.seen /\ last.resp # None) => last.resp.id = last.req.id

\* The peer was not reachable and the Router built the error for request 2.
C14_Witness ==
    /\ last.seen /\ last.forwarded
    /\ last.peer \in {"refused", "timeout", "malformed"}
    /\ last.req.id = <<2>>
    /\ last.resp # None /\ last.resp.by = "proxy" /\ last.resp.id = <<2>>

\* The peer answered request 2 and its document was relayed.
C14_WitnessRelayed ==
    /\ last.seen /\ last.forwarded
    /\ last.peer \in {"result", "error"}
    /\ last.req.id = <<2>>
    /\ last.resp # None /\ last.resp.by = "peer" /\ last.resp.id = <<2>>

\* C15 as stated: of the errors the Router builds, the message that says no
\* headless session is active is produced only when the Session Manager has
\* no current session, and it is the message of exactly the failures that
\* had a usable local backend (so that two failures with the same message
\* agree on whether one existed).
C15_MessageDistinguishes ==
    (last.seen /\ last.resp # None /\ last.resp.by = "proxy") =>
        /\ last.resp.message = "no headless session" =>
              get_current_session(last.preSessions, last.preCurrent) = None
        /\ last.resp.message = "no headless session" <=>
              (LocalEngineAvailable /\ ~FORCE_RPC)

\* C16: closing an open session removes its id from the mapping and keeps
\* every other session; the current pointer becomes None if it was the
\* closed session (no other session is made current) and is unchanged if not.
C16_CloseRemovesOnlyThat ==
    (/\ LastIsTool("close_database") /\ LastRanLocally
     /\ last.req.params.session_id \in Keys(last.preSessions)) =>
        /\ last.req.params.session_id \notin Keys(sessions)
        /\ sessions = SelectSeq(last.preSessions,
                                LAMBDA s : s.session_id # last.req.params.session_id)
        /\ Len(sessions) = Len(last.preSessions) - 1
        /\ current = IF last.preCurrent = last.req.params.session_id
                       THEN None ELSE last.preCurrent
        /\ last.resp.payload.success = "true"

\* Two sessions were open and the current one has been closed: the other
\* is still open and no session is current.
C16_Witness ==
    /\ LastIsTool("close_database") /\ LastRanLocally
    /\ Len(last.preSessions) = 2
    /\ last.req.params.session_id = last.preCurrent
    /\ Len(sessions) = 1
    /\ current = None

\* Two sessions were open and the one that is not current has been closed.
C16_WitnessOther ==
    /\ LastIsTool("close_database") /\ LastRanLocally
    /\ Len(last.preSessions) = 2
    /\ last.req.params.session_id \in Keys(last.preSessions)
    /\ last.req.params.session_id # last.preCurrent
    /\ current = last.preCurrent /\ current # None

\* The open_database call just run named a path no session had open.
LastOpenedNewPath ==
    /\ LastIsTool("open_database") /\ LastRanLocally
    /\ \A i \in 1..Len(last.preSessions) :
          last.preSessions[i].input_path # Resolve(last.req.params.input_path)

\* C17: a successful open of a path that is not open adds exactly one
\* session, under the returned id (the requested id when one is given), and
\* makes it current; a failed open leaves the sessions and the current
\* pointer as they were. The same holds of the open that main does.
C17_OpenAddsOne ==
    /\ LastOpenedNewPath =>
          IF last.resp.payload.success = "true"
            THEN /\ Len(sessions) = Len(last.preSessions) + 1
                 /\ SubSeq(sessions, 1, Len(last.preSessions)) = last.preSessions
                 /\ sessions[Len(sessions)].session_id =
                        last.resp.payload.session.session_id
                 /\ sessions[Len(sessions)].session_id \notin Keys(last.preSessions)
                 /\ sessions[Len(sessions)].input_path =
                        Resolve(last.req.params.input_path)
                 /\ last.req.params.session_id # None =>
                        sessions[Len(sessions)].session_id = last.req.params.session_id
                 /\ current = sessions[Len(sessions)].session_id
            ELSE /\ last.resp.payload.error
                 /\ sessions = last.preSessions
                 /\ current = last.preCurrent
    /\ (~last.seen /\ phase = "serving") =>
          /\ Len(sessions) <= 1
          /\ current = IF sessions = <<>> THEN None ELSE sessions[1].session_id
    /\ (~last.seen /\ ~last.ended /\ phase = "exited") =>
          (sessions = <<>> /\ current = None)

\* With a session open and current, another path has been opened under a
\* requested id: two sessions, the new one current.
C17_Witness ==
    /\ LastOpenedNewPath
    /\ last.preCurrent # None
    /\ last.req.params.session_id # None
    /\ last.resp.payload.success = "true"
    /\ Len(sessions) = 2
    /\ current = last.req.params.session_id
    /\ current # last.preCurrent

\* With a session open and current, the engine did not load another file.
C17_WitnessFailed ==
    /\ LastOpenedNewPath
    /\ PathExists(last.req.params.input_path)
    /\ last.preCurrent # None
    /\ last.resp.payload.error
    /\ sessions = last.preSessions /\ current = last.preCurrent

\* The open_database call just run requested the id of an open session
\* whose path is not the one the call names.
LastOpenCollides ==
    /\ LastIsTool("open_database") /\ LastRanLocally
    /\ last.req.params.session_id # None
    /\ \E i \in 1..Len(last.preSessions) :
         /\ last.preSessions[i].session_id = last.req.params.session_id
         /\ last.preSessions[i].input_path # Resolve(last.req.params.input_path)

\* The call failed and changed nothing; it failed with the Session
\* Manager's Conflict.
LastOpenFailed ==
    /\ last.resp.payload.error
    /\ sessions = last.preSessions
    /\ current = last.preCurrent

LastOpenConflicted ==
    /\ LastOpenFailed
    /\ open_binary(last.preSessions, last.preCurrent, last.req.params.input_path,
                   last.req.params.run_auto_analysis, last.req.params.session_id,
                   TRUE).exc = "ValueError"

UniqueIds == \A i, j \in 1..Len(sessions) :
                 sessions[i].session_id = sessions[j].session_id => i = j

\* C18 as stated: an open that requests the id of an open session with
\* another path fails, and changes nothing.
C18_CollisionConflicts_AsStated == LastOpenCollides => LastOpenFailed

\* C18 amended: an open of an existing path that no session has open, which
\* requests the id of an open session, fails with Conflict and changes
\* nothing; no two sessions ever share an id.
C18_CollisionConflicts ==
    /\ UniqueIds
    /\ (/\ LastOpenCollides
        /\ PathExists(last.req.params.input_path)
        /\ LastOpenedNewPath) => LastOpenConflicted

\* The only open session is not current, and an open of another file that
\* requested its id has failed: it is still the only one and not current.
C18_Witness ==
    /\ LastOpenCollides /\ LastOpenedNewPath
    /\ PathExists(last.req.params.input_path)
    /\ last.preCurrent = None
    /\ Len(sessions) = 1
    /\ sessions[1].session_id = last.req.params.session_id
    /\ current = None
    /\ last.resp.payload.error

\* C19: list returns one descriptor per open session, in the order the
\* sessions were opened; is_current is true of the descriptor of the current
\* session and of no other (of none when no session is current).
C19_ListInOrder ==
    (LastIsTool("list_databases") /\ LastRanLocally) =>
        LET l == last.resp.payload.sessions
        IN  /\ Len(l) = Len(sessions)
            /\ last.resp.payload.count = Len(sessions)
            /\ \A i \in 1..Len(sessions) :
                  /\ l[i].session_id = sessions[i].session_id
                  /\ l[i].input_path = sessions[i].input_path
                  /\ l[i].is_current <=> (sessions[i].session_id = current)
            /\ current = None => \A i \in 1..Len(l) : ~l[i].is_current
            /\ current # None =>
                  \E i \in 1..Len(l) :
                      l[i].is_current /\ \A j \in 1..Len(l) : l[j].is_current => j = i

\* Two sessions are open, the older one is current (a switch went back to
\* it), and both are listed with only the first one current.
C19_Witness ==
    /\ LastIsTool("list_databases") /\ LastRanLocally
    /\ Len(sessions) = 2
    /\ current = sessions[1].session_id
    /\ last.resp.payload.sessions[1].is_current
    /\ ~last.resp.payload.sessions[2].is_current

\* A session is open and none is current: no descriptor is current.
C19_WitnessNoCurrent ==
    /\ LastIsTool("list_databases") /\ LastRanLocally
    /\ Len(sessions) = 1
    /\ current = None
    /\ ~last.resp.payload.sessions[1].is_current

\* The step just taken closed every session: the exit_ida tool ran, or the
\* signal handler did.
LastClosedAll ==
    \/ LastIsTool("exit_ida") /\ LastRanLocally /\ HAS_IDALIB
    \/ last.shutdown

\* C20: close-all attempts the close of every open session, also of those
\* that follow one whose close failed, and leaves no session open and no
\* session current.
C20_CloseAllIsBestEffort ==
    LastClosedAll =>
        LET r == close_all_sessions(last.preSessions, last.preCurrent, last.closeFails)
        IN  /\ {r.attempted[i] : i \in 1..Len(r.attempted)} = Keys(last.preSessions)
            /\ Len(r.attempted) = Len(last.preSessions)
            /\ sessions = <<>>
            /\ current = None
            /\ phase = "exited"

\* exit_ida ran with two sessions open and the close of the older one
\* failed: no session is left.
C20_Witness ==
    /\ LastIsTool("exit_ida") /\ LastRanLocally
    /\ Len(last.preSessions) = 2
    /\ last.closeFails = {last.preSessions[1].session_id}
    /\ last.preCurrent # None
    /\ sessions = <<>> /\ current = None

\* The signal handler ran with a session open whose close failed.
C20_WitnessSignal ==
    /\ last.shutdown
    /\ last.preSessions # <<>>
    /\ last.closeFails = Keys(last.preSessions)
    /\ sessions = <<>> /\ current = None

\* C23: --headless together with --rpc-only ends the process before the
\* transport starts: no request is handled with both flags set.
C23_ContradictoryFlagsAreFatal ==
    (FORCE_HEADLESS /\ FORCE_RPC) =>
        /\ phase = "exited"
        /\ ~last.seen
        /\ sessions = <<>>

\* main was given both flags and the process has ended.
C23_Witness ==
    /\ FORCE_HEADLESS /\ FORCE_RPC
    /\ phase = "exited"
    /\ ~last.seen

\* C24: when the local dispatch raises, without --headless the request is
\* forwarded and the Router returns what the forwarding gives (the peer's
\* document, or on a failed exchange the error -32000, or nothing for a
\* notification); with --headless the exception leaves the Router and the
\* request is not forwarded.
C24_LocalFailureFallsBack ==
    (last.seen /\ last.faulted) =>
        IF FORCE_HEADLESS
          THEN last.raised /\ ~last.forwarded /\ last.resp = None
          ELSE /\ last.forwarded /\ ~last.raised
               /\ last.peer \in {"result", "error"} =>
                     (last.resp # None /\ last.resp.by = "peer"
                                      /\ last.resp.kind = last.peer)
               /\ last.peer \in {"refused", "timeout", "malformed"} =>
                     IF last.req.id = None THEN last.resp = None
                     ELSE last.resp # None /\ last.resp.by = "proxy"
                                          /\ last.resp.code = -32000

\* Without --headless the local dispatch raised and the peer answered.
C24_Witness ==
    /\ last.seen /\ last.faulted /\ ~FORCE_HEADLESS
    /\ last.forwarded /\ last.peer = "result"
    /\ last.resp # None /\ last.resp.by = "peer"

\* With --headless the local dispatch raised and the exception went out.
C24_WitnessHeadless ==
    /\ last.seen /\ last.faulted /\ FORCE_HEADLESS
    /\ last.raised /\ ~last.forwarded

\* C22 as stated: whichever way the serving process ends, close-all has run
\* before it exits: no session is open in a process that has exited.
C22_ShutdownClosesAll ==
    phase = "exited" => (sessions = <<>> /\ current = None)

\* The threads that have returned from a locally dispatched call, the
\* orders in which their calls can be put, and what the calls return and
\* leave in the Session Manager when they run one after the other in such
\* an order, from the state the manager had when the threads were idle.
Returned == {t \in Threads : threads[t].pc = "done"}
Quiet == \A t \in Threads : threads[t].pc \in {"idle", "done"}
Orders(D) == {o \in [1..Cardinality(D) -> D] : \A i, j \in DOMAIN o : o[i] = o[j] => i = j}

RECURSIVE InTurn(_, _, _, _, _)
InTurn(o, i, ss, cur, outs) ==
    IF i > Cardinality(DOMAIN o) THEN [ss |-> ss, cur |-> cur, outs |-> outs]
    ELSE LET r == RunTool(ss, cur, TRUE, threads[o[i]].req.params, TRUE, TRUE, {})
         IN  InTurn(o, i + 1, r.ss, r.cur, [outs EXCEPT ![o[i]] = r.result])

\* C21 as stated: when concurrent calls have all returned, what they returned
\* and the sessions and current pointer they left are those of the same
\* calls run one after the other in some order.
C21_Linearizable ==
    (/\ phase = "serving" /\ Quiet /\ Returned # {}
     /\ \A t \in Returned : threads[t].attempts = 0) =>
        \E o \in Orders(Returned) :
            LET r == InTurn(o, 1, base.ss, base.cur, [t \in Threads |-> None])
            IN  /\ r.ss = sessions
                /\ r.cur = current
                /\ \A t \in Returned : r.outs[t] = threads[t].out

\* The thread has returned from the named tool, run locally.
ThreadRan(t, name) ==
    /\ threads[t].pc = "done"
    /\ threads[t].attempts = 0
    /\ threads[t].req.params.name = name

\* C26 as stated: the dict list_databases returns is one snapshot: its
\* current_session_id is the id of the one listed session flagged
\* is_current, and None exactly when none is flagged; and a successful
\* switch_database reports the session with the id it was given.
C26_ConsistentSnapshot ==
    \A t \in Threads :
        /\ ThreadRan(t, "list_databases") =>
              LET l == threads[t].out.sessions
                  flagged == {i \in 1..Len(l) : l[i].is_current}
              IN  /\ Cardinality(flagged) <= 1
                  /\ threads[t].out.current_session_id = None <=> flagged = {}
                  /\ \A i \in flagged :
                        l[i].session_id = threads[t].out.current_session_id
        /\ (ThreadRan(t, "switch_database") /\ threads[t].out.success = "true") =>
              threads[t].out.session.session_id = threads[t].req.params.session_id

\* C27 as stated: a call dispatched locally for the current session alone
\* (no --headless, not a discovery call, not open_database) is run by the
\* local Registry while a session is current.
C27_StillCurrentWhenRun ==
    \A t \in Threads :
        (ThreadRan(t, "decompile") /\ threads[t].onlySession) => threads[t].withSession

\* A thread is in the middle of a request.
Busy(t) == threads[t].pc \notin {"idle", "done"}

\* C25: the handling of a request ends; a request makes at most one HTTP
\* exchange; an exchange that times out is answered as one that was
\* refused; and no connection is left open by a thread that has returned.
C25_ForwardingTerminates ==
    /\ [](\A t \in Threads :
            /\ threads[t].attempts <= 1
            /\ ~Busy(t) => threads[t].conn # "open"
            /\ (threads[t].pc = "done" /\ threads[t].peer = "timeout") =>
                  threads[t].out = Forward(threads[t].req, "refused", HAS_IDALIB, FORCE_RPC))
    /\ \A t \in Threads : Busy(t) ~> (threads[t].pc = "done")

\* A thread has returned from an exchange that timed out: one attempt, the
\* connection closed, the error -32000 returned.
C25_Witness ==
    \E t \in Threads :
        /\ threads[t].pc = "done"
        /\ threads[t].peer = "timeout"
        /\ threads[t].attempts = 1
        /\ threads[t].conn = "closed"
        /\ threads[t].out # None /\ threads[t].out.code = -32000

====
